---- MODULE Spec2Model ----
(***************************************************************************)
(* State machine of pavelanni/examiner: the exam session / question thread *)
(* lifecycle driven by the HTTP handlers (internal/handler/handler.go)     *)
(* over the SQLite store (internal/store/store.go), with the LLM client    *)
(* (internal/llm: EvaluateAnswer, GradeThread, validateGradeResult) as the *)
(* assessor gateway.                                                       *)
(*                                                                         *)
(* Every store call is one SQL statement (or one transaction) and is       *)
(* atomic; a handler is a sequence of store calls, so a handler is a       *)
(* process whose position is the pc field of its request record.  A read   *)
(* followed by a pure computation on what was read (prompt building, the   *)
(* gateway call, validation) is folded into the step of the read: nothing  *)
(* the computation uses can change in between.                             *)
(*                                                                         *)
(* Scores are float64 in the code.  encoding/json never yields NaN or an   *)
(* infinity, so the scores the program handles are finite and are modelled *)
(* by integers; a percentage is an exact fraction in lowest terms.         *)
(***************************************************************************)
EXTENDS Integers, Sequences, FiniteSets, TLC

(***************************************************************************)
(* Bounds of the model.                                                    *)
(***************************************************************************)
MaxSessions == 2      \* exam sessions ever created
MaxMessages == 4      \* rows of the messages table
MaxClock == 2         \* readings of time.Now() that are stored
MaxQuestions == 4     \* rows of the questions table

(***************************************************************************)
(* Program constants.                                                      *)
(***************************************************************************)
maxFeedbackLen == 5000
maxFollowupLen == 5000

StatusInProgress == "in_progress"
StatusSubmitted == "submitted"
StatusGrading == "grading"
StatusGraded == "graded"
StatusReviewed == "reviewed"

ThreadOpen == "open"
ThreadAnswered == "answered"
ThreadCompleted == "completed"

RoleStudent == "student"
RoleLLM == "assistant"

UserRoleStudent == "student"
UserRoleTeacher == "teacher"
UserRoleAdmin == "admin"

\* HTTP status codes the handlers answer with.
StatusOK == 200
StatusSeeOther == 303
StatusBadRequest == 400
StatusForbidden == 403
StatusInternalServerError == 500

(***************************************************************************)
(* Nullable columns (submitted_at, final_grade, teacher_score, ...).       *)
(***************************************************************************)
Null == [null |-> TRUE]
Some(v) == [null |-> FALSE, v |-> v]

Min(a, b) == IF a <= b THEN a ELSE b
Max(a, b) == IF a >= b THEN a ELSE b

VARIABLES
    config,        \* model.ExamConfig of the deployment
    users,         \* users table: id -> role
    questions,     \* questions table, in id order
    imported_files, \* imported_files table: path -> hash (PRIMARY KEY path)
    blueprints,    \* exam_blueprints table, in id order
    sessions,      \* exam_sessions table, in id order
    threads,       \* question_threads table, in id order
    messages,      \* messages table, in id order
    scores,        \* question_scores table: thread_id -> row (UNIQUE thread_id)
    grades,        \* grades table: session_id -> row (UNIQUE session_id)
    clock,         \* the last reading of time.Now() that was stored
    req,           \* the requests being handled: slot -> handler frame
    conc,          \* how many requests the server handles at once
    probe,         \* input and output of a stand-alone validator call
    created_max_points \* history: thread id -> max_points of its question when
                   \* the session was created

vars == <<config, users, questions, imported_files, blueprints, sessions, threads,
          messages, scores, grades, clock, req, conc, probe, created_max_points>>

store == <<questions, imported_files, blueprints, sessions, threads, messages, scores,
           grades>>

Slots == {1, 2}
Idle == [kind |-> "idle"]
NoProbe == [phase |-> "none"]

(***************************************************************************)
(* The deployment the model runs: two students and a teacher, a bank of    *)
(* two questions loaded at startup.  InsertQuestion stores max_points as   *)
(* it stands in the file: nothing checks that it is positive.              *)
(***************************************************************************)
InitialUsers == (1 :> UserRoleStudent) @@ (2 :> UserRoleStudent) @@ (3 :> UserRoleTeacher)

QuestionFile ==
    << [difficulty |-> "easy", topic |-> "t1", max_points |-> 2],
       [difficulty |-> "hard", topic |-> "t2", max_points |-> -1] >>

\* A question file whose max_points add up to less than zero.
QuestionFileNegativeSum ==
    << [difficulty |-> "easy", topic |-> "t1", max_points |-> 2],
       [difficulty |-> "hard", topic |-> "t2", max_points |-> -3] >>

\* The startup file after an edit of the first question's max_points.
QuestionFileEdited ==
    << [difficulty |-> "easy", topic |-> "t1", max_points |-> 7],
       [difficulty |-> "hard", topic |-> "t2", max_points |-> -1] >>

\* A file that is not a JSON array of questions.
InvalidFile == << [text |-> "{"] >>

\* The hex digest of each file content the model reads.  SHA-256 is taken
\* to be free of collisions: different contents, different digests.
sha256sum(data) ==
    LET contents == <<QuestionFile, QuestionFileNegativeSum, QuestionFileEdited,
                      InvalidFile>>
        digests == <<"2c26", "fcde", "baa5", "7d86">>
    IN digests[CHOOSE i \in 1..Len(contents) : contents[i] = data]

\* json.Unmarshal into []model.QuestionImport.
Unmarshal(data) ==
    IF data = InvalidFile THEN [err |-> TRUE, questions |-> <<>>]
    ELSE [err |-> FALSE, questions |-> data]

\* The default of --questions.
QuestionsPath == "questions/physics_en.json"

DefaultConfig ==
    [NumQuestions |-> 0, Difficulty |-> "", Topic |-> "", MaxFollowups |-> 1,
     Shuffle |-> FALSE]

\* loadQuestions: on an empty bank, one blueprint with the configured
\* max_followups, then one InsertQuestion per entry of the file.
loadQuestions(file, maxFollowups) ==
    [blueprints |-> << [id |-> 1, max_followups |-> maxFollowups] >>,
     questions |-> [i \in 1..Len(file) |->
                      [id |-> i, difficulty |-> file[i].difficulty,
                       topic |-> file[i].topic, max_points |-> file[i].max_points]]]

(***************************************************************************)
(* Store reads.                                                            *)
(***************************************************************************)
\* SELECT hash FROM imported_files WHERE path = ?; "" when there is no row.
GetImportedFileHash(path) ==
    IF path \in DOMAIN imported_files THEN imported_files[path] ELSE ""

SessionExists(id) == id \in 1..Len(sessions)
GetSession(id) == sessions[id]
GetThread(id) == threads[id]
GetQuestion(id) == questions[id]
GetBlueprint(id) == blueprints[id]

\* SELECT ... WHERE session_id = ? ORDER BY id
GetThreadsForSession(sessionID) ==
    SelectSeq(threads, LAMBDA t : t.session_id = sessionID)

\* Mutation of GetMessages: the newest message of the thread is not read.
GetMessages_Stale(threadID) ==
    LET all == SelectSeq(messages, LAMBDA m : m.thread_id = threadID)
    IN IF all = <<>> THEN all ELSE SubSeq(all, 1, Len(all) - 1)

\* SELECT ... WHERE thread_id = ? ORDER BY id
GetMessages(threadID) ==
    SelectSeq(messages, LAMBDA m : m.thread_id = threadID)

\* SELECT ... WHERE 1=1 [AND difficulty = ?] [AND topic = ?]
ListQuestionsFiltered(difficulty, topic) ==
    SelectSeq(questions, LAMBDA q :
        /\ (difficulty # "" => q.difficulty = difficulty)
        /\ (topic # "" => q.topic = topic))

(***************************************************************************)
(* Store writes, as the new value of the table each one changes.           *)
(***************************************************************************)
\* Mutation of InsertQuestion: a question of the same topic and difficulty
\* is replaced where it stands.
InsertQuestion_Upsert(qi) ==
    IF \E q \in DOMAIN questions :
          questions[q].topic = qi.topic /\ questions[q].difficulty = qi.difficulty
    THEN [q \in DOMAIN questions |->
            IF questions[q].topic = qi.topic /\ questions[q].difficulty = qi.difficulty
            THEN [questions[q] EXCEPT !.max_points = qi.max_points]
            ELSE questions[q]]
    ELSE Append(questions, [id |-> Len(questions) + 1, difficulty |-> qi.difficulty,
                            topic |-> qi.topic, max_points |-> qi.max_points])

\* INSERT INTO questions (...) VALUES (...)
InsertQuestion(qi) ==
    Append(questions, [id |-> Len(questions) + 1, difficulty |-> qi.difficulty,
                       topic |-> qi.topic, max_points |-> qi.max_points])

\* INSERT INTO imported_files ... ON CONFLICT(path) DO UPDATE SET hash = ?
SetImportedFileHash(path, hash) ==
    [p \in DOMAIN imported_files \cup {path} |->
        IF p = path THEN hash ELSE imported_files[p]]

\* One transaction: the session row, then one thread row per question.
CreateSessionRows(blueprintID, studentID) ==
    Append(sessions, [id |-> Len(sessions) + 1, blueprint_id |-> blueprintID,
                      student_id |-> studentID, status |-> StatusInProgress,
                      submitted_at |-> Null])

\* Mutation of CreateSessionThreads: the session row is written alone.
CreateSessionThreads_None(questionIDs) == threads

\* Mutation of CreateSessionThreads: the threads are attached to the first
\* session instead of the session just inserted.
CreateSessionThreads_FirstSession(questionIDs) ==
    threads \o [i \in 1..Len(questionIDs) |->
                  [id |-> Len(threads) + i, session_id |-> 1,
                   question_id |-> questionIDs[i], status |-> ThreadOpen]]

CreateSessionThreads(questionIDs) ==
    threads \o [i \in 1..Len(questionIDs) |->
                  [id |-> Len(threads) + i, session_id |-> Len(sessions) + 1,
                   question_id |-> questionIDs[i], status |-> ThreadOpen]]

\* UPDATE exam_sessions SET status = ? [, submitted_at = now] WHERE id = ?
UpdateSessionStatus(id, status, now) ==
    [s \in DOMAIN sessions |->
        IF s # id THEN sessions[s]
        ELSE IF status = StatusSubmitted
             THEN [sessions[s] EXCEPT !.status = status, !.submitted_at = Some(now)]
             ELSE [sessions[s] EXCEPT !.status = status]]

\* Mutation of UpdateThreadStatus: the WHERE clause is dropped.
UpdateThreadStatus_AllRows(id, status) ==
    [t \in DOMAIN threads |-> [threads[t] EXCEPT !.status = status]]

\* UPDATE question_threads SET status = ? WHERE id = ?
UpdateThreadStatus(id, status) ==
    [t \in DOMAIN threads |->
        IF t = id THEN [threads[t] EXCEPT !.status = status] ELSE threads[t]]

\* Mutation of AddMessage: the role column is not kept apart.
AddMessage_RoleLost(threadID, role, content) ==
    Append(messages, [id |-> Len(messages) + 1, thread_id |-> threadID,
                      role |-> RoleLLM, content |-> content])

\* INSERT INTO messages (thread_id, role, content, ...)
AddMessage(threadID, role, content) ==
    Append(messages, [id |-> Len(messages) + 1, thread_id |-> threadID,
                      role |-> role, content |-> content])

\* Mutation of UpsertScore: on a conflict only the score is replaced.
UpsertScore_ScoreOnly(threadID, llmScore, llmFeedback) ==
    [t \in DOMAIN scores \cup {threadID} |->
        IF t # threadID THEN scores[t]
        ELSE IF t \in DOMAIN scores
             THEN [scores[t] EXCEPT !.llm_score = llmScore]
             ELSE [llm_score |-> llmScore, llm_feedback |-> llmFeedback,
                   teacher_score |-> Null, teacher_comment |-> ""]]

\* Mutation of UpsertScore: INSERT OR REPLACE, which writes a fresh row.
UpsertScore_Replace(threadID, llmScore, llmFeedback) ==
    [t \in DOMAIN scores \cup {threadID} |->
        IF t # threadID THEN scores[t]
        ELSE [llm_score |-> llmScore, llm_feedback |-> llmFeedback,
              teacher_score |-> Null, teacher_comment |-> ""]]

\* INSERT INTO question_scores ... ON CONFLICT(thread_id) DO UPDATE
\*   SET llm_score = ?, llm_feedback = ?
UpsertScore(threadID, llmScore, llmFeedback) ==
    [t \in DOMAIN scores \cup {threadID} |->
        IF t # threadID THEN scores[t]
        ELSE IF t \in DOMAIN scores
             THEN [scores[t] EXCEPT !.llm_score = llmScore, !.llm_feedback = llmFeedback]
             ELSE [llm_score |-> llmScore, llm_feedback |-> llmFeedback,
                   teacher_score |-> Null, teacher_comment |-> ""]]

\* UPDATE question_scores SET teacher_score = ?, teacher_comment = ? WHERE thread_id = ?
UpdateTeacherScore(threadID, score, comment) ==
    [t \in DOMAIN scores |->
        IF t = threadID
        THEN [scores[t] EXCEPT !.teacher_score = Some(score), !.teacher_comment = comment]
        ELSE scores[t]]

\* Mutation of UpsertGrade: the row is replaced as a whole.
UpsertGrade_Replace(sessionID, llmGrade) ==
    [s \in DOMAIN grades \cup {sessionID} |->
        IF s # sessionID THEN grades[s]
        ELSE [llm_grade |-> llmGrade, final_grade |-> Null,
              reviewed_by |-> Null, reviewed_at |-> Null]]

\* INSERT INTO grades ... ON CONFLICT(session_id) DO UPDATE SET llm_grade = ?
UpsertGrade(sessionID, llmGrade) ==
    [s \in DOMAIN grades \cup {sessionID} |->
        IF s # sessionID THEN grades[s]
        ELSE IF s \in DOMAIN grades
             THEN [grades[s] EXCEPT !.llm_grade = llmGrade]
             ELSE [llm_grade |-> llmGrade, final_grade |-> Null,
                   reviewed_by |-> Null, reviewed_at |-> Null]]

\* UPDATE grades SET final_grade = ?, reviewed_by = ?, reviewed_at = now WHERE session_id = ?
FinalizeGrade(sessionID, finalGrade, reviewerID, now) ==
    [s \in DOMAIN grades |->
        IF s = sessionID
        THEN [grades[s] EXCEPT !.final_grade = Some(finalGrade),
                               !.reviewed_by = Some(reviewerID),
                               !.reviewed_at = Some(now)]
        ELSE grades[s]]

(***************************************************************************)
(* Prompt building (internal/llm/prompts).                                 *)
(***************************************************************************)
RECURSIVE CountFollowups(_)
CountFollowups(msgs) ==
    IF msgs = <<>> THEN 0
    ELSE (IF Head(msgs).role = RoleLLM THEN 1 ELSE 0) + CountFollowups(Tail(msgs))

\* Mutation of CanFollowup: one follow-up more than the maximum is allowed.
CanFollowup_OffByOne(msgs, maxFollowups) == CountFollowups(msgs) <= maxFollowups

\* BuildEvalPrompt: CanFollowup of the template data.
CanFollowup(msgs, maxFollowups) == CountFollowups(msgs) < maxFollowups

(***************************************************************************)
(* The validator (validateGradeResult) on a parsed GradeResult.            *)
(***************************************************************************)
Truncate(s, n) == IF Len(s) > n THEN SubSeq(s, 1, n) ELSE s

ClampScore(score, maxPoints) == Max(0, Min(maxPoints, score))

\* Lines 192-208: the warning logged when the clamp changed the score, ""
\* when it did not.
ClampWarning(score, maxPoints) ==
    LET clamped == ClampScore(score, maxPoints)
    IN IF clamped = score THEN ""
       ELSE IF clamped = 0
       THEN "LLM score clamped to lower bound (0) - possible prompt injection"
       ELSE IF clamped = maxPoints
       THEN "LLM score clamped to upper bound (maxPoints) - possible prompt injection"
       ELSE "LLM score clamped - possible prompt injection"

validateGradeResult(result, maxPoints) ==
    [Score |-> ClampScore(result.Score, maxPoints),
     MaxPoints |-> IF result.MaxPoints # maxPoints THEN maxPoints ELSE result.MaxPoints,
     Feedback |-> Truncate(result.Feedback, maxFeedbackLen),
     NeedFollowup |-> result.NeedFollowup,
     FollowupQ |-> Truncate(result.FollowupQ, maxFollowupLen)]

(***************************************************************************)
(* What the assessor service can answer: a transport failure, or the JSON  *)
(* object it chose.  Nothing about the object can be trusted.              *)
(***************************************************************************)
RawScores == {-1, 1, 3}
RawMaxPoints == {2, 7}

RawResults ==
    [Score : RawScores, MaxPoints : RawMaxPoints, Feedback : {"fb"},
     NeedFollowup : BOOLEAN, FollowupQ : {"", "fq"}]

GatewayError == "connection refused"

GatewayOutcomes ==
    {[err |-> GatewayError]} \cup {[err |-> "", result |-> r] : r \in RawResults}

(***************************************************************************)
(* Requests in flight.  A frame holds the handler's position (pc), the     *)
(* request values and locals it still reads, and the number of gateway     *)
(* calls it has made.                                                      *)
(***************************************************************************)
InFlight == Cardinality({k \in Slots : req[k].kind # "idle"})

\* A new request takes the lowest free slot.
FreeSlot(k) ==
    /\ req[k].kind = "idle"
    /\ \A j \in Slots : j < k => req[j].kind # "idle"
    /\ InFlight < conc

\* Messages the requests in flight are still going to append.
PendingAdds(r) ==
    IF r.kind # "answer" THEN 0
    ELSE IF r.pc = "add_student_message" THEN 2
    ELSE IF r.pc \in {"evaluate", "add_llm_message"} THEN 1
    ELSE 0

RECURSIVE SumPending(_)
SumPending(S) ==
    IF S = {} THEN 0
    ELSE LET k == CHOOSE x \in S : TRUE IN PendingAdds(req[k]) + SumPending(S \ {k})

\* A handler that has answered with an error or a plain redirect: what is
\* left of its frame is the response.
Done(kind, code, calls) == [kind |-> kind, pc |-> "done", code |-> code, calls |-> calls]

(***************************************************************************)
(* POST /exam/start                                                        *)
(***************************************************************************)
Orders(n) ==
    {p \in [1..n -> 1..n] : \A i, j \in 1..n : p[i] = p[j] => i = j}

\* rand.Shuffle when --shuffle is set: any order; otherwise the query's order.
ShuffleOrders(n, shuffle) ==
    IF shuffle THEN Orders(n) ELSE {[i \in 1..n |-> i]}

\* Mutation of CapQuestions: the cap keeps one question more than configured.
CapQuestions_OneMore(found, numQuestions) ==
    IF numQuestions > 0 /\ numQuestions < Len(found)
    THEN SubSeq(found, 1, numQuestions + 1)
    ELSE found

\* Lines 162-164.
CapQuestions(found, numQuestions) ==
    IF numQuestions > 0 /\ numQuestions < Len(found)
    THEN SubSeq(found, 1, numQuestions)
    ELSE found

\* The answer to a start request, with the topic the request carried.
StartDone(code, topicForm) ==
    [kind |-> "start", pc |-> "done", code |-> code, calls |-> 0,
     in |-> [topic |-> topicForm]]

handleStartExam(k, user, topicForm) ==
    /\ FreeSlot(k)
    /\ Len(sessions) < MaxSessions
    /\ LET topic == IF topicForm = "" THEN config.Topic ELSE topicForm
           found == ListQuestionsFiltered(config.Difficulty, topic)
       IN IF Len(found) = 0
          THEN /\ req' = [req EXCEPT ![k] = StartDone(StatusBadRequest, topicForm)]
               /\ UNCHANGED <<sessions, threads, created_max_points>>
          ELSE \E p \in ShuffleOrders(Len(found), config.Shuffle) :
                 LET shuffled == [i \in 1..Len(found) |-> found[p[i]]]
                     capped == CapQuestions(shuffled, config.NumQuestions)
                     questionIDs == [i \in 1..Len(capped) |-> capped[i].id]
                 IN /\ sessions' = CreateSessionRows(1, user)
                    /\ threads' = CreateSessionThreads(questionIDs)
                    /\ created_max_points' =
                          [t \in DOMAIN threads' |->
                              IF t \in DOMAIN created_max_points
                              THEN created_max_points[t]
                              ELSE GetQuestion(threads'[t].question_id).max_points]
                    /\ req' = [req EXCEPT ![k] = StartDone(StatusSeeOther, topicForm)]
    /\ UNCHANGED <<config, users, questions, imported_files, blueprints, messages, scores,
                   grades,
                   clock, conc, probe>>

(***************************************************************************)
(* POST /exam/{sessionID}/answer/{threadID}                                *)
(***************************************************************************)
\* Lines 208-234: the checks made before anything is written, as the status
\* code of the rejection, or StatusOK when the turn goes on.  The thread in
\* the path is not looked at.
AnswerChecks(user, sessionID, answer) ==
    IF answer = "" THEN StatusBadRequest
    ELSE IF ~SessionExists(sessionID) THEN StatusInternalServerError
    ELSE IF users[user] = UserRoleStudent /\ GetSession(sessionID).student_id # user
         THEN StatusForbidden
    ELSE IF GetSession(sessionID).status # StatusInProgress THEN StatusBadRequest
    ELSE StatusOK

handleAnswerBegin(k, user, sessionID, threadID, answer) ==
    /\ FreeSlot(k)
    /\ threadID \in 1..Len(threads)
    /\ Len(messages) + SumPending(Slots) + 2 <= MaxMessages
    /\ LET code == AnswerChecks(user, sessionID, answer)
       IN req' = [req EXCEPT ![k] =
            IF code # StatusOK THEN Done("answer", code, 0)
            ELSE [kind |-> "answer", pc |-> "add_student_message", code |-> 0, calls |-> 0,
                  in |-> [sessionID |-> sessionID, threadID |-> threadID,
                          answer |-> answer],
                  sess |-> [blueprint_id |-> GetSession(sessionID).blueprint_id],
                  own |-> 0]]
    /\ UNCHANGED <<config, users, store, created_max_points, clock, conc, probe>>

\* Mutation of handleAnswerAddStudent: the respondent message is not stored.
handleAnswerAddStudent_NotStored(k) ==
    /\ req[k].kind = "answer"
    /\ req[k].pc = "add_student_message"
    /\ req' = [req EXCEPT ![k].pc = "evaluate"]
    /\ UNCHANGED <<config, users, store, created_max_points, clock, conc, probe>>

\* Lines 236-245.
handleAnswerAddStudent(k) ==
    /\ req[k].kind = "answer"
    /\ req[k].pc = "add_student_message"
    /\ messages' = AddMessage(req[k].in.threadID, RoleStudent, req[k].in.answer)
    /\ req' = [req EXCEPT ![k].pc = "evaluate", ![k].own = Len(messages')]
    /\ UNCHANGED <<config, users, questions, imported_files, created_max_points,
                   blueprints, sessions, threads, scores,
                   grades, clock, conc, probe>>

\* Lines 247-278: the thread, its question, its messages and the blueprint
\* are read, and EvaluateAnswer builds the prompt, calls the gateway once and
\* validates what came back.  own (the id AddMessage returned, which the code
\* drops) and seen (how many messages were sent to the assessor) are kept for
\* the properties below.
handleAnswerEvaluateWith(k, outcomes) ==
    /\ req[k].kind = "answer"
    /\ req[k].pc = "evaluate"
    /\ LET thread == GetThread(req[k].in.threadID)
           question == GetQuestion(thread.question_id)
           msgs == GetMessages(req[k].in.threadID)
           bp == GetBlueprint(req[k].sess.blueprint_id)
       IN \E out \in outcomes :
            req' = [req EXCEPT ![k] =
              IF out.err # "" THEN Done("answer", StatusInternalServerError, 1)
              ELSE [kind |-> "answer", pc |-> "add_llm_message", code |-> 0, calls |-> 1,
                    in |-> req[k].in,
                    seen |-> Len(msgs),
                    canFollowup |-> CanFollowup(msgs, bp.max_followups),
                    result |-> validateGradeResult(out.result, question.max_points)]]
    /\ UNCHANGED <<config, users, store, created_max_points, clock, conc, probe>>

handleAnswerEvaluate(k) == handleAnswerEvaluateWith(k, GatewayOutcomes)

FollowupMarker == "\n\n**Follow-up question:** "

\* Lines 280-283.
LLMText(result) ==
    IF result.NeedFollowup /\ result.FollowupQ # ""
    THEN result.Feedback \o FollowupMarker \o result.FollowupQ
    ELSE result.Feedback

\* Lines 296-299.
NewThreadStatus(result) ==
    IF ~result.NeedFollowup THEN ThreadCompleted ELSE ThreadAnswered

\* Lines 285-294.
handleAnswerAddLLM(k) ==
    /\ req[k].kind = "answer"
    /\ req[k].pc = "add_llm_message"
    /\ messages' = AddMessage(req[k].in.threadID, RoleLLM, LLMText(req[k].result))
    /\ req' = [req EXCEPT ![k].pc = "update_thread_status"]
    /\ UNCHANGED <<config, users, questions, imported_files, created_max_points,
                   blueprints, sessions, threads, scores,
                   grades, clock, conc, probe>>

\* Lines 296-328: the status is written and the thread is rendered.
handleAnswerUpdateStatus(k) ==
    /\ req[k].kind = "answer"
    /\ req[k].pc = "update_thread_status"
    /\ threads' = UpdateThreadStatus(req[k].in.threadID, NewThreadStatus(req[k].result))
    /\ req' = [req EXCEPT ![k].pc = "done", ![k].code = StatusOK]
    /\ UNCHANGED <<config, users, questions, imported_files, created_max_points,
                   blueprints, sessions, messages, scores,
                   grades, clock, conc, probe>>

(***************************************************************************)
(* POST /exam/{sessionID}/submit                                           *)
(***************************************************************************)
RECURSIVE GCD(_, _)
GCD(a, b) == IF b = 0 THEN a ELSE GCD(b, a % b)

\* The float64 quotient n / d (n >= 0, d > 0) as a fraction in lowest terms.
Frac(n, d) == LET g == GCD(n, d) IN [num |-> n \div g, den |-> d \div g]

\* Lines 402-405.
OverallGrade(totalScore, totalMaxPoints) ==
    IF totalMaxPoints > 0 THEN Frac(100 * totalScore, totalMaxPoints) ELSE Frac(0, 1)

\* Mutation of NoAnswerFeedback: the feedback is left empty.
NoAnswerFeedback_Empty == ""

NoAnswerFeedback == "No answer provided."
\* GradeThread wraps the transport error; handleSubmit prefixes it.
GradeThreadError(err) == "LLM grading API call: " \o err
\* Mutation of GradingErrorFeedback: the cause is dropped.
GradingErrorFeedback_NoCause(err) == "Grading error"

GradingErrorFeedback(err) == "Grading error: " \o GradeThreadError(err)

\* Mutation of ThreadOutcome: a thread without messages is sent to the
\* grader like any other.
ThreadOutcome_NoShortcut(threadID, msgs, out, question) ==
    IF out.err # ""
    THEN [thread |-> threadID, kind |-> "error", raw |-> 0, score |-> 0,
          feedback |-> "Grading error: " \o GradeThreadError(out.err),
          maxPoints |-> question.max_points]
    ELSE [thread |-> threadID, kind |-> "graded", raw |-> 0, score |-> 0,
          feedback |-> "", maxPoints |-> question.max_points]

\* Lines 360-385: what one pass of the loop decides for a thread from its
\* messages and the gateway's answer.  raw is the score the assessor sent for
\* a graded thread, kept beside the validated one for the properties below.
ThreadOutcome(threadID, msgs, out, question) ==
    IF Len(msgs) = 0
    THEN [thread |-> threadID, kind |-> "no_answer", raw |-> 0, score |-> 0,
          feedback |-> NoAnswerFeedback, maxPoints |-> question.max_points]
    ELSE IF out.err # ""
    THEN [thread |-> threadID, kind |-> "error", raw |-> 0, score |-> 0,
          feedback |-> GradingErrorFeedback(out.err),
          maxPoints |-> question.max_points]
    ELSE LET result == validateGradeResult(out.result, question.max_points)
         IN [thread |-> threadID, kind |-> "graded", raw |-> out.result.Score,
             score |-> result.Score, feedback |-> result.Feedback,
             maxPoints |-> question.max_points]

\* Mutation of AddMaxPoints: only a graded thread counts in the denominator.
AddMaxPoints_GradedOnly(totalMaxPoints, cur) ==
    IF cur.kind = "graded" THEN totalMaxPoints + cur.maxPoints ELSE totalMaxPoints

\* Lines 369, 383, 399: totalMaxPoints += question.MaxPoints on every path.
AddMaxPoints(totalMaxPoints, cur) == totalMaxPoints + cur.maxPoints

\* Line 398: totalScore += result.Score, on the graded path alone.
AddScore(totalScore, cur) ==
    IF cur.kind = "graded" THEN totalScore + cur.score ELSE totalScore

\* The end of one pass of the loop: the totals, and the next thread if any.
NextThread(r) ==
    [r EXCEPT !.totalScore = AddScore(@, r.cur),
              !.totalMaxPoints = AddMaxPoints(@, r.cur),
              !.outcomes = Append(@, r.cur),
              !.i = @ + 1,
              !.pc = IF r.i + 1 > Len(r.threads) THEN "upsert_grade" ELSE "grade_thread"]

\* What GradeThread is answered for a final grading: need_followup and
\* followup_question are not read on this path.
GradeOutcomes ==
    {out \in GatewayOutcomes :
        out.err = "" => ~out.result.NeedFollowup /\ out.result.FollowupQ = ""}

\* Lines 331-338.  The handler checks neither who asks nor the status the
\* session is in.
handleSubmitBegin(k, sessionID) ==
    /\ FreeSlot(k)
    /\ SessionExists(sessionID)
    /\ clock < MaxClock
    /\ clock' = clock + 1
    /\ sessions' = UpdateSessionStatus(sessionID, StatusSubmitted, clock')
    /\ req' = [req EXCEPT ![k] =
                 [kind |-> "submit", pc |-> "set_grading", code |-> 0, calls |-> 0,
                  in |-> [sessionID |-> sessionID],
                  threads |-> <<>>, i |-> 1, totalScore |-> 0, totalMaxPoints |-> 0,
                  outcomes |-> <<>>, cur |-> Null]]
    /\ UNCHANGED <<config, users, questions, imported_files, created_max_points,
                   blueprints, threads, messages, scores,
                   grades, conc, probe>>

\* Lines 339-353.  Of each thread read, the loop uses the id and the question.
handleSubmitSetGrading(k) ==
    /\ req[k].kind = "submit"
    /\ req[k].pc = "set_grading"
    /\ sessions' = UpdateSessionStatus(req[k].in.sessionID, StatusGrading, clock)
    /\ LET found == GetThreadsForSession(req[k].in.sessionID)
       IN req' = [req EXCEPT
            ![k].pc = IF Len(found) = 0 THEN "upsert_grade" ELSE "grade_thread",
            ![k].threads = [i \in 1..Len(found) |->
                              [id |-> found[i].id, question_id |-> found[i].question_id]]]
    /\ UNCHANGED <<config, users, questions, imported_files, created_max_points,
                   blueprints, threads, messages, scores,
                   grades, clock, conc, probe>>

\* Lines 356-361 and 373-374: the question and the messages are read and,
\* unless there is no message, GradeThread calls the gateway once.
handleSubmitGradeThreadWith(k, outcomes) ==
    /\ req[k].kind = "submit"
    /\ req[k].pc = "grade_thread"
    /\ LET t == req[k].threads[req[k].i]
           question == GetQuestion(t.question_id)
           msgs == GetMessages(t.id)
       IN \E out \in (IF Len(msgs) = 0 THEN {[err |-> ""]} ELSE outcomes) :
            req' = [req EXCEPT ![k].cur = ThreadOutcome(t.id, msgs, out, question),
                               ![k].calls = IF Len(msgs) = 0 THEN @ ELSE @ + 1,
                               ![k].pc = "upsert_score"]
    /\ UNCHANGED <<config, users, store, created_max_points, clock, conc, probe>>

handleSubmitGradeThread(k) == handleSubmitGradeThreadWith(k, GradeOutcomes)

\* Lines 362-371, 376-385, 387-393.
handleSubmitUpsertScore(k) ==
    /\ req[k].kind = "submit"
    /\ req[k].pc = "upsert_score"
    /\ scores' = UpsertScore(req[k].threads[req[k].i].id, req[k].cur.score,
                             req[k].cur.feedback)
    /\ req' = [req EXCEPT ![k] =
                 IF req[k].cur.kind = "graded"
                 THEN [req[k] EXCEPT !.pc = "complete_thread"]
                 ELSE NextThread(req[k])]
    /\ UNCHANGED <<config, users, questions, imported_files, created_max_points,
                   blueprints, sessions, threads, messages,
                   grades, clock, conc, probe>>

\* Lines 394-399.
handleSubmitCompleteThread(k) ==
    /\ req[k].kind = "submit"
    /\ req[k].pc = "complete_thread"
    /\ threads' = UpdateThreadStatus(req[k].threads[req[k].i].id, ThreadCompleted)
    /\ req' = [req EXCEPT ![k] = NextThread(req[k])]
    /\ UNCHANGED <<config, users, questions, imported_files, created_max_points,
                   blueprints, sessions, messages, scores,
                   grades, clock, conc, probe>>

\* Lines 402-412.
handleSubmitUpsertGrade(k) ==
    /\ req[k].kind = "submit"
    /\ req[k].pc = "upsert_grade"
    /\ grades' = UpsertGrade(req[k].in.sessionID,
                             OverallGrade(req[k].totalScore, req[k].totalMaxPoints))
    /\ req' = [req EXCEPT ![k].pc = "set_graded"]
    /\ UNCHANGED <<config, users, questions, imported_files, created_max_points,
                   blueprints, sessions, threads, messages,
                   scores, clock, conc, probe>>

\* Lines 413-417.
handleSubmitSetGraded(k) ==
    /\ req[k].kind = "submit"
    /\ req[k].pc = "set_graded"
    /\ sessions' = UpdateSessionStatus(req[k].in.sessionID, StatusGraded, clock)
    /\ req' = [req EXCEPT ![k].pc = "done", ![k].code = StatusSeeOther]
    /\ UNCHANGED <<config, users, questions, imported_files, created_max_points,
                   blueprints, threads, messages, scores,
                   grades, clock, conc, probe>>

(***************************************************************************)
(* POST /review/{sessionID}/score/{threadID} and                           *)
(* POST /review/{sessionID}/finalize, behind requireRole(teacher, admin).  *)
(***************************************************************************)
\* strconv.ParseFloat on the form values the model submits.
ParseFloat(str) ==
    IF str = "80" THEN [err |-> FALSE, v |-> 80]
    ELSE IF str = "1" THEN [err |-> FALSE, v |-> 1]
    ELSE [err |-> TRUE, v |-> 0]

requireRole(user) == users[user] = UserRoleTeacher

\* Lines 483-503.  UpdateTeacherScore is the handler's only store call.
handleUpdateScore(k, user, threadID, scoreStr, comment) ==
    /\ FreeSlot(k)
    /\ threadID \in 1..Len(threads)
    /\ LET parsed == ParseFloat(scoreStr)
       IN IF ~requireRole(user)
          THEN /\ req' = [req EXCEPT ![k] = Done("score", StatusForbidden, 0)]
               /\ UNCHANGED scores
          ELSE IF parsed.err
          THEN /\ req' = [req EXCEPT ![k] = Done("score", StatusBadRequest, 0)]
               /\ UNCHANGED scores
          ELSE /\ scores' = UpdateTeacherScore(threadID, parsed.v, comment)
               /\ req' = [req EXCEPT ![k] = Done("score", StatusSeeOther, 0)]
    /\ UNCHANGED <<config, users, questions, imported_files, created_max_points,
                   blueprints, sessions, threads, messages,
                   grades, clock, conc, probe>>

\* Lines 505-520.
handleFinalizeBegin(k, user, sessionID, gradeStr) ==
    /\ FreeSlot(k)
    /\ SessionExists(sessionID)
    /\ LET parsed == ParseFloat(gradeStr)
       IN IF ~requireRole(user)
          THEN /\ req' = [req EXCEPT ![k] = Done("finalize", StatusForbidden, 0)]
               /\ UNCHANGED <<grades, clock>>
          ELSE IF parsed.err
          THEN /\ req' = [req EXCEPT ![k] = Done("finalize", StatusBadRequest, 0)]
               /\ UNCHANGED <<grades, clock>>
          ELSE /\ clock < MaxClock
               /\ clock' = clock + 1
               /\ grades' = FinalizeGrade(sessionID, parsed.v, user, clock')
               /\ req' = [req EXCEPT ![k] =
                            [kind |-> "finalize", pc |-> "set_reviewed", code |-> 0,
                             calls |-> 0,
                             in |-> [user |-> user, sessionID |-> sessionID,
                                     finalGrade |-> parsed.v]]]
    /\ UNCHANGED <<config, users, questions, imported_files, created_max_points,
                   blueprints, sessions, threads, messages,
                   scores, conc, probe>>

\* Lines 521-527.
handleFinalizeSetReviewed(k) ==
    /\ req[k].kind = "finalize"
    /\ req[k].pc = "set_reviewed"
    /\ sessions' = UpdateSessionStatus(req[k].in.sessionID, StatusReviewed, clock)
    /\ req' = [req EXCEPT ![k].pc = "done", ![k].code = StatusSeeOther]
    /\ UNCHANGED <<config, users, questions, imported_files, created_max_points,
                   blueprints, threads, messages, scores,
                   grades, clock, conc, probe>>

(***************************************************************************)
(* POST /admin/questions                                                   *)
(***************************************************************************)
\* The admin group of Routes: requireRole(model.UserRoleAdmin).
requireAdmin(user) == users[user] = UserRoleAdmin

\* admin.go lines 95-137: the digest of the upload is compared with the one
\* stored for the name of the upload, then the file is parsed.
handleUploadQuestionsBegin(k, user, filename, data) ==
    /\ FreeSlot(k)
    /\ LET hash == sha256sum(data)
           storedHash == GetImportedFileHash(filename)
           parsed == Unmarshal(data)
       IN IF ~requireAdmin(user)
          THEN req' = [req EXCEPT ![k] = Done("upload", StatusForbidden, 0)]
          ELSE IF storedHash = hash
          THEN req' = [req EXCEPT ![k] =
                         Done("upload", StatusOK, 0) @@ [message |-> "UploadDuplicate"]]
          ELSE IF parsed.err
          THEN req' = [req EXCEPT ![k] = Done("upload", StatusBadRequest, 0)]
          ELSE /\ Len(questions) + Len(parsed.questions) <= MaxQuestions
               /\ req' = [req EXCEPT ![k] =
                            [kind |-> "upload", pc |-> "insert_question", code |-> 0,
                             calls |-> 0,
                             in |-> [filename |-> filename, hash |-> hash],
                             questions |-> parsed.questions, i |-> 1]]
    /\ UNCHANGED <<config, users, store, created_max_points, clock, conc, probe>>

\* admin.go lines 139-154: one InsertQuestion per entry of the file.
handleUploadQuestionsInsert(k) ==
    /\ req[k].kind = "upload"
    /\ req[k].pc = "insert_question"
    /\ req[k].i <= Len(req[k].questions)
    /\ questions' = InsertQuestion(req[k].questions[req[k].i])
    /\ req' = [req EXCEPT ![k].i = @ + 1]
    /\ UNCHANGED <<config, users, imported_files, created_max_points, blueprints,
                   sessions, threads, messages, scores, grades, clock, conc, probe>>

\* admin.go lines 156-165: the digest is recorded under the name of the
\* upload and the page reports the import.
handleUploadQuestionsSetHash(k) ==
    /\ req[k].kind = "upload"
    /\ req[k].pc = "insert_question"
    /\ req[k].i > Len(req[k].questions)
    /\ imported_files' = SetImportedFileHash(req[k].in.filename, req[k].in.hash)
    /\ req' = [req EXCEPT ![k].pc = "done", ![k].code = StatusOK]
    /\ UNCHANGED <<config, users, questions, created_max_points, blueprints,
                   sessions, threads, messages, scores, grades, clock, conc, probe>>

(***************************************************************************)
(* The server is started again on a database that holds questions:         *)
(* loadQuestions, main.go lines 373-439, for one path.  No request is      *)
(* being handled.                                                          *)
(***************************************************************************)
loadQuestionsPath(path, data) ==
    /\ \A k \in Slots : req[k].kind = "idle"
    /\ LET hash == sha256sum(data)
           storedHash == GetImportedFileHash(path)
           parsed == Unmarshal(data)
       IN /\ blueprints' =
               IF Len(questions) = 0
               THEN Append(blueprints, [id |-> Len(blueprints) + 1,
                                        max_followups |-> config.MaxFollowups])
               ELSE blueprints
          /\ IF storedHash = hash \/ storedHash # "" \/ parsed.err
             THEN UNCHANGED <<questions, imported_files>>
             ELSE /\ Len(questions) + Len(parsed.questions) <= MaxQuestions
                  /\ questions' = questions \o
                        [i \in 1..Len(parsed.questions) |->
                           [id |-> Len(questions) + i,
                            difficulty |-> parsed.questions[i].difficulty,
                            topic |-> parsed.questions[i].topic,
                            max_points |-> parsed.questions[i].max_points]]
                  /\ imported_files' = SetImportedFileHash(path, hash)
    /\ UNCHANGED <<config, users, created_max_points, sessions, threads,
                   messages, scores, grades, clock, req, conc, probe>>

(***************************************************************************)
(* The response is written and the handler returns.                        *)
(***************************************************************************)
Return(k) ==
    /\ req[k].kind # "idle"
    /\ req[k].pc = "done"
    /\ req' = [req EXCEPT ![k] = Idle]
    /\ UNCHANGED <<config, users, store, created_max_points, clock, conc, probe>>

(***************************************************************************)
(* prompts.go: the sanitizer of respondent text.  Strings are handled      *)
(* character by character, as the regular expressions do.                  *)
(***************************************************************************)
maxAnswerRunes == 10000
NoAnswerPlaceholder == "[No answer provided]"

Char(s, i) == SubSeq(s, i, i)

\* (?i): letters are compared without regard to case.
LowerChar(c) ==
    LET upper == "ABCDEFGHIJKLMNOPQRSTUVWXYZ"
        lower == "abcdefghijklmnopqrstuvwxyz"
    IN IF \E i \in 1..Len(upper) : Char(upper, i) = c
       THEN Char(lower, CHOOSE i \in 1..Len(upper) : Char(upper, i) = c)
       ELSE c

RECURSIVE ToLower(_)
ToLower(s) == IF s = "" THEN "" ELSE LowerChar(Char(s, 1)) \o ToLower(SubSeq(s, 2, Len(s)))

\* \s of the regular expressions and the white space of strings.TrimSpace.
IsSpace(c) == c \in {" ", "\t", "\n", "\f", "\r"}

\* The word characters of \b.
IsWord(c) ==
    LET word == "ABCDEFGHIJKLMNOPQRSTUVWXYZabcdefghijklmnopqrstuvwxyz0123456789_"
    IN \E i \in 1..Len(word) : Char(word, i) = c

\* (?i)</?\s*name\b[^>]*> matched at position i of s: the position of the
\* last character of the match, 0 if there is no match at i.  After "<" and
\* an optional "/", \s* takes all the white space there is (b), the name is
\* read without regard to case up to c - 1, \b asks for no word character at
\* c, and [^>]*> ends at the first ">" from c on.
TagEnd(s, i, name) ==
    IF i > Len(s) \/ Char(s, i) # "<" THEN 0
    ELSE LET a == IF i + 1 <= Len(s) /\ Char(s, i + 1) = "/" THEN i + 2 ELSE i + 1
             b == CHOOSE j \in a..(Len(s) + 1) :
                     /\ \A m \in a..(j - 1) : IsSpace(Char(s, m))
                     /\ j = Len(s) + 1 \/ ~IsSpace(Char(s, j))
             c == b + Len(name)
             closing == {j \in c..Len(s) : Char(s, j) = ">"}
         IN IF c - 1 > Len(s) THEN 0
            ELSE IF ToLower(SubSeq(s, b, c - 1)) # name THEN 0
            ELSE IF c <= Len(s) /\ IsWord(Char(s, c)) THEN 0
            ELSE IF closing = {} THEN 0
            ELSE CHOOSE j \in closing : \A m \in closing : j <= m

\* regexp.ReplaceAllString(s, ""): one pass from the left over the text as
\* it was given, from position i on; a match is dropped and the scan goes on
\* after it.
RECURSIVE ReplaceAllString(_, _, _)
ReplaceAllString(s, i, name) ==
    IF i > Len(s) THEN ""
    ELSE LET e == TagEnd(s, i, name)
         IN IF e # 0 THEN ReplaceAllString(s, e + 1, name)
            ELSE Char(s, i) \o ReplaceAllString(s, i + 1, name)

TrimSpace(s) ==
    LET kept == {i \in 1..Len(s) : ~IsSpace(Char(s, i))}
    IN IF kept = {} THEN ""
       ELSE SubSeq(s, CHOOSE i \in kept : \A m \in kept : i <= m,
                      CHOOSE i \in kept : \A m \in kept : i >= m)

\* prompts.go lines 212-228, with the names of studentAnswerRegex and
\* systemInstructionsRegex.
sanitizeAnswer(answer) ==
    LET a1 == ReplaceAllString(answer, 1, "student-answer")
        a2 == ReplaceAllString(a1, 1, "system-instructions")
        a3 == TrimSpace(a2)
    IN IF a3 = "" THEN NoAnswerPlaceholder
       ELSE IF Len(a3) > maxAnswerRunes
       THEN SubSeq(a3, 1, maxAnswerRunes) \o "\n\n[Answer truncated due to length]"
       ELSE a3

\* The texts a respondent submits: up to MaxPieces pieces of markup and of
\* plain text, one after the other.
MaxPieces == 3

RECURSIVE Concat(_)
Concat(pieces) == IF pieces = <<>> THEN "" ELSE Head(pieces) \o Concat(Tail(pieces))

SanitizeInputs ==
    LET pieces == {"<student-answer>", "</STUDENT-Answer >", "< system-instructions x>",
                   "<stu", "dent-answer>", "<student-", "answer>",
                   "<system-instructions>", " ", "ok"}
        texts == {Concat(p) : p \in UNION {[1..n -> pieces] : n \in 0..MaxPieces}}
    IN [phase : {"answer"}, answer : texts]

Sanitize ==
    /\ probe.phase = "answer"
    /\ probe' = [phase |-> "sanitized", answer |-> probe.answer,
                 out |-> sanitizeAnswer(probe.answer)]
    /\ UNCHANGED <<config, users, store, created_max_points, clock, req, conc>>

(***************************************************************************)
(* What the assessor is sent: the system prompt built by the prompts       *)
(* package and the chat messages EvaluateAnswer and GradeThread add.  Of   *)
(* the prompt, the model keeps the template data and the instruction on    *)
(* follow-ups.                                                             *)
(***************************************************************************)
\* The content of the last respondent message, "" if there is none.
extractStudentAnswer(msgs) ==
    LET student == {i \in 1..Len(msgs) : msgs[i].role = RoleStudent}
    IN IF student = {} THEN ""
       ELSE msgs[CHOOSE i \in student : \A m \in student : i >= m].content

RECURSIVE extractConversation(_)
extractConversation(msgs) ==
    IF msgs = <<>> THEN ""
    ELSE (IF Head(msgs).role = RoleLLM THEN "Assistant" ELSE "Student")
            \o ": " \o Head(msgs).content \o "\n\n"
            \o extractConversation(Tail(msgs))

\* The instruction of the evaluation templates on follow-ups, by
\* CanFollowup.
MayFollowupText == "MAY ask ONE follow-up"
NoFollowupText == "Do NOT ask any more follow-ups"
EvalInstructions(canFollowup) == IF canFollowup THEN MayFollowupText ELSE NoFollowupText

BuildEvalPrompt(msgs, maxFollowups) ==
    [Answer |-> sanitizeAnswer(extractStudentAnswer(msgs)),
     Instructions |-> EvalInstructions(CanFollowup(msgs, maxFollowups))]

BuildGradePrompt(msgs) ==
    [Answer |-> sanitizeAnswer(extractConversation(msgs))]

\* The loop of EvaluateAnswer and of GradeThread over the messages, after
\* the system prompt; the roles are openai.ChatMessageRoleSystem, -User and
\* -Assistant.
ChatMessages(systemPrompt, msgs) ==
    << [Role |-> "system", Content |-> systemPrompt] >> \o
    [i \in 1..Len(msgs) |->
        [Role |-> IF msgs[i].role = RoleLLM THEN "assistant" ELSE "user",
         Content |-> msgs[i].content]]

EvaluateAnswerRequest(msgs, maxFollowups) ==
    ChatMessages(BuildEvalPrompt(msgs, maxFollowups), msgs)

GradeThreadRequest(msgs) == ChatMessages(BuildGradePrompt(msgs), msgs)

\* The conversations the requests are built for: up to MaxConversation
\* messages of either role, with max_followups 0 to 2.
MaxConversation == 3

PromptInputs ==
    LET texts == {"ok", " <student-answer>x"}
        message == [role : {RoleStudent, RoleLLM}, content : texts]
        conversations == UNION {[1..n -> message] : n \in 0..MaxConversation}
    IN [phase : {"conversation"}, op : {"evaluate", "grade"},
        messages : conversations, maxFollowups : 0..2]

BuildRequest ==
    /\ probe.phase = "conversation"
    /\ probe' = [phase |-> "request", op |-> probe.op, messages |-> probe.messages,
                 maxFollowups |-> probe.maxFollowups,
                 request |-> IF probe.op = "evaluate"
                             THEN EvaluateAnswerRequest(probe.messages, probe.maxFollowups)
                             ELSE GradeThreadRequest(probe.messages)]
    /\ UNCHANGED <<config, users, store, created_max_points, clock, req, conc>>

(***************************************************************************)
(* A stand-alone call of the validator, on any parsed result and any       *)
(* max_points a question can carry.                                        *)
(***************************************************************************)
ProbeScores == -2..4
ProbeMaxPoints == -2..3

ProbeInputs ==
    [phase : {"input"},
     result : [Score : ProbeScores, MaxPoints : {0, 2}, Feedback : {"fb"},
               NeedFollowup : BOOLEAN, FollowupQ : {""}],
     maxPoints : ProbeMaxPoints]

Validate ==
    /\ probe.phase = "input"
    /\ probe' = [phase |-> "output", result |-> probe.result,
                 maxPoints |-> probe.maxPoints,
                 out |-> validateGradeResult(probe.result, probe.maxPoints),
                 warning |-> ClampWarning(probe.result.Score, probe.maxPoints)]
    /\ UNCHANGED <<config, users, store, created_max_points, clock, req, conc>>

(***************************************************************************)
(* Specifications.  Spec: the server started on an empty database with the *)
(* question file loaded, handling one request at a time.  SpecValidate:    *)
(* the validator alone.                                                    *)
(***************************************************************************)
InitStoreUsers(cfg, file, us) ==
    LET loaded == loadQuestions(file, cfg.MaxFollowups)
    IN /\ config = cfg
       /\ users = us
       /\ questions = loaded.questions
       /\ imported_files = (QuestionsPath :> sha256sum(file))
       /\ created_max_points = <<>>
       /\ blueprints = loaded.blueprints
       /\ sessions = <<>>
       /\ threads = <<>>
       /\ messages = <<>>
       /\ scores = [t \in {} |-> Null]
       /\ grades = [s \in {} |-> Null]
       /\ req = [k \in Slots |-> Idle]

InitStoreFile(cfg, file) == InitStoreUsers(cfg, file, InitialUsers)

InitStore(cfg) ==
    /\ InitStoreFile(cfg, QuestionFile)
    /\ clock = 0

\* The requests the model sends.
StartUsers == {1}
TopicInputs == {"", "t1", "zz"}
AnswerInputs == {"", "ans"}
ReviewUsers == {2, 3}
GradeInputs == {"80", "x"}

Init ==
    /\ InitStore(DefaultConfig)
    /\ conc = 1
    /\ probe = NoProbe

Next ==
    \/ \E k \in Slots, u \in StartUsers, topic \in TopicInputs :
          handleStartExam(k, u, topic)
    \/ \E k \in Slots, u \in DOMAIN users, s \in 1..MaxSessions,
          t \in 1..Len(threads), a \in AnswerInputs :
            handleAnswerBegin(k, u, s, t, a)
    \/ \E k \in Slots : handleAnswerAddStudent(k)
    \/ \E k \in Slots : handleAnswerEvaluate(k)
    \/ \E k \in Slots : handleAnswerAddLLM(k)
    \/ \E k \in Slots : handleAnswerUpdateStatus(k)
    \/ \E k \in Slots, s \in 1..MaxSessions : handleSubmitBegin(k, s)
    \/ \E k \in Slots : handleSubmitSetGrading(k)
    \/ \E k \in Slots : handleSubmitGradeThread(k)
    \/ \E k \in Slots : handleSubmitUpsertScore(k)
    \/ \E k \in Slots : handleSubmitCompleteThread(k)
    \/ \E k \in Slots : handleSubmitUpsertGrade(k)
    \/ \E k \in Slots : handleSubmitSetGraded(k)
    \/ \E k \in Slots, u \in ReviewUsers, s \in 1..MaxSessions, str \in GradeInputs :
          handleFinalizeBegin(k, u, s, str)
    \/ \E k \in Slots : handleFinalizeSetReviewed(k)
    \/ \E k \in Slots : Return(k)

Spec == Init /\ [][Next]_vars

InitValidate ==
    /\ InitStore(DefaultConfig)
    /\ conc = 1
    /\ probe \in ProbeInputs

NextValidate == Validate

SpecValidate == InitValidate /\ [][NextValidate]_vars

\* SpecSanitize: the sanitizer alone, on every text of AnswerTexts.
InitSanitize ==
    /\ InitStore(DefaultConfig)
    /\ conc = 1
    /\ probe \in SanitizeInputs

NextSanitize == Sanitize

SpecSanitize == InitSanitize /\ [][NextSanitize]_vars

\* SpecPrompt: the assessor requests alone, for every conversation of
\* Conversations.
InitPrompt ==
    /\ InitStore(DefaultConfig)
    /\ conc = 1
    /\ probe \in PromptInputs

NextPrompt == BuildRequest

SpecPrompt == InitPrompt /\ [][NextPrompt]_vars

(***************************************************************************)
(* SpecNegativeSum: the same server started on a question file whose       *)
(* max_points add up to less than zero.                                    *)
(***************************************************************************)
InitNegativeSum ==
    /\ InitStoreFile(DefaultConfig, QuestionFileNegativeSum)
    /\ clock = 0
    /\ conc = 1
    /\ probe = NoProbe

SpecNegativeSum == InitNegativeSum /\ [][Next]_vars

(***************************************************************************)
(* SpecConc: two requests handled at once, their store calls interleaved   *)
(* in any order; the assessor answers with a failure or with one of two    *)
(* results.                                                                *)
(***************************************************************************)
ConcEvalOutcomes ==
    {[err |-> GatewayError],
     [err |-> "", result |-> [Score |-> 1, MaxPoints |-> 2, Feedback |-> "fb",
                              NeedFollowup |-> TRUE, FollowupQ |-> "fq"]],
     [err |-> "", result |-> [Score |-> 3, MaxPoints |-> 7, Feedback |-> "fb",
                              NeedFollowup |-> FALSE, FollowupQ |-> ""]]}

ConcGradeOutcomes ==
    {[err |-> GatewayError],
     [err |-> "", result |-> [Score |-> 1, MaxPoints |-> 2, Feedback |-> "fb",
                              NeedFollowup |-> FALSE, FollowupQ |-> ""]],
     [err |-> "", result |-> [Score |-> 3, MaxPoints |-> 7, Feedback |-> "fb",
                              NeedFollowup |-> FALSE, FollowupQ |-> ""]]}

\* One question, hence one thread, per session.
ConcConfig == [DefaultConfig EXCEPT !.Topic = "t1"]

InitConc ==
    /\ InitStore(ConcConfig)
    /\ conc = 2
    /\ probe = NoProbe

NextConc ==
    \/ \E k \in Slots, u \in StartUsers, topic \in TopicInputs :
          handleStartExam(k, u, topic)
    \/ \E k \in Slots, u \in DOMAIN users, s \in 1..MaxSessions,
          t \in 1..Len(threads), a \in AnswerInputs :
            handleAnswerBegin(k, u, s, t, a)
    \/ \E k \in Slots : handleAnswerAddStudent(k)
    \/ \E k \in Slots : handleAnswerEvaluateWith(k, ConcEvalOutcomes)
    \/ \E k \in Slots : handleAnswerAddLLM(k)
    \/ \E k \in Slots : handleAnswerUpdateStatus(k)
    \/ \E k \in Slots, s \in 1..MaxSessions : handleSubmitBegin(k, s)
    \/ \E k \in Slots : handleSubmitSetGrading(k)
    \/ \E k \in Slots : handleSubmitGradeThreadWith(k, ConcGradeOutcomes)
    \/ \E k \in Slots : handleSubmitUpsertScore(k)
    \/ \E k \in Slots : handleSubmitCompleteThread(k)
    \/ \E k \in Slots : handleSubmitUpsertGrade(k)
    \/ \E k \in Slots : handleSubmitSetGraded(k)
    \/ \E k \in Slots : Return(k)

SpecConc == InitConc /\ [][NextConc]_vars

(***************************************************************************)
(* SpecReview: one request at a time, with the reviewer's score override   *)
(* among the requests; the assessor answers as in SpecConc.                *)
(***************************************************************************)
ScoreInputs == {"1", "x"}
CommentInputs == {"ok"}

\* The clock starts one reading earlier, so that a session can be submitted,
\* finalized and submitted again before MaxClock is reached.
InitReview ==
    /\ InitStoreFile(ConcConfig, QuestionFile)
    /\ clock = -1
    /\ conc = 1
    /\ probe = NoProbe

NextReview ==
    \/ \E k \in Slots, u \in StartUsers, topic \in TopicInputs :
          handleStartExam(k, u, topic)
    \/ \E k \in Slots, u \in DOMAIN users, s \in 1..MaxSessions,
          t \in 1..Len(threads), a \in AnswerInputs :
            handleAnswerBegin(k, u, s, t, a)
    \/ \E k \in Slots : handleAnswerAddStudent(k)
    \/ \E k \in Slots : handleAnswerEvaluateWith(k, ConcEvalOutcomes)
    \/ \E k \in Slots : handleAnswerAddLLM(k)
    \/ \E k \in Slots : handleAnswerUpdateStatus(k)
    \/ \E k \in Slots, s \in 1..MaxSessions : handleSubmitBegin(k, s)
    \/ \E k \in Slots : handleSubmitSetGrading(k)
    \/ \E k \in Slots : handleSubmitGradeThreadWith(k, ConcGradeOutcomes)
    \/ \E k \in Slots : handleSubmitUpsertScore(k)
    \/ \E k \in Slots : handleSubmitCompleteThread(k)
    \/ \E k \in Slots : handleSubmitUpsertGrade(k)
    \/ \E k \in Slots : handleSubmitSetGraded(k)
    \/ \E k \in Slots, u \in ReviewUsers, t \in 1..Len(threads),
          str \in ScoreInputs, c \in CommentInputs :
            handleUpdateScore(k, u, t, str, c)
    \/ \E k \in Slots, u \in ReviewUsers, s \in 1..MaxSessions, str \in GradeInputs :
          handleFinalizeBegin(k, u, s, str)
    \/ \E k \in Slots : handleFinalizeSetReviewed(k)
    \/ \E k \in Slots : Return(k)

SpecReview == InitReview /\ [][NextReview]_vars

(***************************************************************************)
(* SpecUpload: exams are taken and graded while an admin uploads question  *)
(* files and the server is started again on an edited or a new file.       *)
(***************************************************************************)
UploadUsers == {1, 4}
UploadNames == {QuestionsPath, "upload.json"}
UploadFiles == {QuestionFile, QuestionFileEdited, InvalidFile}

InitUpload ==
    /\ InitStoreUsers(ConcConfig, QuestionFile, InitialUsers @@ (4 :> UserRoleAdmin))
    /\ clock = 0
    /\ conc = 1
    /\ probe = NoProbe

NextUpload ==
    \/ \E k \in Slots, u \in StartUsers, topic \in TopicInputs :
          handleStartExam(k, u, topic)
    \/ \E k \in Slots, u \in StartUsers, s \in 1..MaxSessions,
          t \in 1..Len(threads), a \in AnswerInputs :
            handleAnswerBegin(k, u, s, t, a)
    \/ \E k \in Slots : handleAnswerAddStudent(k)
    \/ \E k \in Slots : handleAnswerEvaluateWith(k, ConcEvalOutcomes)
    \/ \E k \in Slots : handleAnswerAddLLM(k)
    \/ \E k \in Slots : handleAnswerUpdateStatus(k)
    \/ \E k \in Slots, s \in 1..MaxSessions : handleSubmitBegin(k, s)
    \/ \E k \in Slots : handleSubmitSetGrading(k)
    \/ \E k \in Slots : handleSubmitGradeThreadWith(k, ConcGradeOutcomes)
    \/ \E k \in Slots : handleSubmitUpsertScore(k)
    \/ \E k \in Slots : handleSubmitCompleteThread(k)
    \/ \E k \in Slots : handleSubmitUpsertGrade(k)
    \/ \E k \in Slots : handleSubmitSetGraded(k)
    \/ \E k \in Slots, u \in UploadUsers, name \in UploadNames, data \in UploadFiles :
          handleUploadQuestionsBegin(k, u, name, data)
    \/ \E k \in Slots : handleUploadQuestionsInsert(k)
    \/ \E k \in Slots : handleUploadQuestionsSetHash(k)
    \/ \E name \in UploadNames, data \in UploadFiles : loadQuestionsPath(name, data)
    \/ \E k \in Slots : Return(k)

SpecUpload == InitUpload /\ [][NextUpload]_vars

(***************************************************************************)
(* SpecStudents: two students take exams; every request is sent by a       *)
(* student.                                                                *)
(***************************************************************************)
StudentUsers == {1, 2}

InitStudents ==
    /\ InitStore(ConcConfig)
    /\ conc = 1
    /\ probe = NoProbe

NextStudents ==
    \/ \E k \in Slots, u \in StudentUsers, topic \in TopicInputs :
          handleStartExam(k, u, topic)
    \/ \E k \in Slots, u \in StudentUsers, s \in 1..MaxSessions,
          t \in 1..Len(threads), a \in AnswerInputs :
            handleAnswerBegin(k, u, s, t, a)
    \/ \E k \in Slots : handleAnswerAddStudent(k)
    \/ \E k \in Slots : handleAnswerEvaluateWith(k, ConcEvalOutcomes)
    \/ \E k \in Slots : handleAnswerAddLLM(k)
    \/ \E k \in Slots : handleAnswerUpdateStatus(k)
    \/ \E k \in Slots, s \in 1..MaxSessions : handleSubmitBegin(k, s)
    \/ \E k \in Slots : handleSubmitSetGrading(k)
    \/ \E k \in Slots : handleSubmitGradeThreadWith(k, ConcGradeOutcomes)
    \/ \E k \in Slots : handleSubmitUpsertScore(k)
    \/ \E k \in Slots : handleSubmitCompleteThread(k)
    \/ \E k \in Slots : handleSubmitUpsertGrade(k)
    \/ \E k \in Slots : handleSubmitSetGraded(k)
    \/ \E k \in Slots : Return(k)

SpecStudents == InitStudents /\ [][NextStudents]_vars

(***************************************************************************)
(* Properties.                                                             *)
(***************************************************************************)
SessionRank(status) ==
    CASE status = StatusInProgress -> 1
      [] status = StatusSubmitted -> 2
      [] status = StatusGrading -> 3
      [] status = StatusGraded -> 4
      [] status = StatusReviewed -> 5

ThreadRank(status) ==
    CASE status = ThreadOpen -> 1
      [] status = ThreadAnswered -> 2
      [] status = ThreadCompleted -> 3

RECURSIVE CountRole(_, _)
CountRole(msgs, role) ==
    IF msgs = <<>> THEN 0
    ELSE (IF Head(msgs).role = role THEN 1 ELSE 0) + CountRole(Tail(msgs), role)

RECURSIVE SumMaxPoints(_)
SumMaxPoints(ts) ==
    IF ts = <<>> THEN 0
    ELSE GetQuestion(Head(ts).question_id).max_points + SumMaxPoints(Tail(ts))

Contains(str, sub) ==
    \E i \in 1..(Len(str) - Len(sub) + 1) : SubSeq(str, i, i + Len(sub) - 1) = sub

StartsWith(str, prefix) ==
    Len(str) >= Len(prefix) /\ SubSeq(str, 1, Len(prefix)) = prefix

EndsWith(str, suffix) ==
    Len(str) >= Len(suffix)
    /\ SubSeq(str, Len(str) - Len(suffix) + 1, Len(str)) = suffix

OwnerSession(threadID) == GetSession(GetThread(threadID).session_id)

MaxFollowupsOf(threadID) == GetBlueprint(OwnerSession(threadID).blueprint_id).max_followups

LastMessage(threadID) ==
    LET msgs == GetMessages(threadID) IN msgs[Len(msgs)]

\* A submission whose grading is over: the percentage is being or was stored.
GradingFinished(r) ==
    r.kind = "submit" /\ r.pc \in {"upsert_grade", "set_graded", "done"}

\* A respondent turn that was answered as successful.
TurnSucceeded(r) ==
    r.kind = "answer" /\ r.pc = "done" /\ r.code = StatusOK

\* C1: in every step, every session keeps its status or moves to the next
\* status of in_progress -> submitted -> grading -> graded -> reviewed; it
\* never moves back and never skips a status, and a new session starts
\* in_progress.
C1_SessionStatusForward ==
    [][/\ \A s \in DOMAIN sessions :
            \/ SessionRank(sessions'[s].status) = SessionRank(sessions[s].status)
            \/ SessionRank(sessions'[s].status) = SessionRank(sessions[s].status) + 1
       /\ \A s \in (DOMAIN sessions') \ (DOMAIN sessions) :
            sessions'[s].status = StatusInProgress]_vars

\* C2: in every step, no thread's status moves back along
\* open -> answered -> completed.
C2_ThreadStatusForward ==
    [][\A t \in DOMAIN threads :
          ThreadRank(threads'[t].status) >= ThreadRank(threads[t].status)]_vars

\* C3 as stated: in every state, every thread holds at most max_followups
\* (of the blueprint of its session) messages written by the assessor.
C3_AssessorMessagesWithinMaxFollowups ==
    \A t \in DOMAIN threads :
        CountFollowups(GetMessages(t)) <= MaxFollowupsOf(t)

\* C3 amended: in every state, every thread holds at most as many messages
\* written by the assessor as messages written by the respondent: one reply
\* per turn, whatever max_followups is.
C3_AssessorMessagesWithinTurns ==
    \A t \in DOMAIN threads :
        CountFollowups(GetMessages(t)) <= CountRole(GetMessages(t), RoleStudent)

\* A thread holds more assessor messages than max_followups, one per turn.
C3_Witness ==
    \E t \in DOMAIN threads :
        /\ CountFollowups(GetMessages(t)) > MaxFollowupsOf(t)
        /\ CountFollowups(GetMessages(t)) = CountRole(GetMessages(t), RoleStudent)

C6_ValidatedWithinBounds ==
    probe.phase = "output" =>
        /\ 0 <= probe.out.Score
        /\ probe.out.Score <= probe.maxPoints
        /\ probe.out.MaxPoints = probe.maxPoints

\* C7: in every state, every automated score stored for a thread lies in
\* [0, max_points of the thread's question].
C7_StoredScoreWithinBounds ==
    \A t \in DOMAIN scores :
        /\ 0 <= scores[t].llm_score
        /\ scores[t].llm_score <= GetQuestion(GetThread(t).question_id).max_points

\* C8: a respondent turn that is let through, and is about to append its
\* message, has a non-empty text and targets a thread whose own session is
\* in_progress.
C8_AcceptedTurnOwnerInProgress ==
    \A k \in Slots :
        (req[k].kind = "answer" /\ req[k].pc = "add_student_message") =>
            /\ req[k].in.answer # ""
            /\ OwnerSession(req[k].in.threadID).status = StatusInProgress

\* C9: after a successful turn the thread is answered, with feedback followed
\* by the follow-up text as the assessor message, exactly when the validated
\* result asks for a follow-up and has a non-empty follow-up text; otherwise
\* it is completed and the assessor message is the feedback alone.
C9_AnsweredIffFollowupWithText ==
    \A k \in Slots :
        TurnSucceeded(req[k]) =>
            LET result == req[k].result
                threadID == req[k].in.threadID
            IN IF result.NeedFollowup /\ result.FollowupQ # ""
               THEN /\ GetThread(threadID).status = ThreadAnswered
                    /\ StartsWith(LastMessage(threadID).content, result.Feedback)
                    /\ EndsWith(LastMessage(threadID).content, result.FollowupQ)
               ELSE /\ GetThread(threadID).status = ThreadCompleted
                    /\ LastMessage(threadID).content = result.Feedback

\* C10: a successful turn that was evaluated when the thread already held
\* max_followups assessor messages leaves the thread completed.
C10_CompletedWhenFollowupsExhausted ==
    \A k \in Slots :
        (TurnSucceeded(req[k]) /\ ~req[k].canFollowup) =>
            GetThread(req[k].in.threadID).status = ThreadCompleted

\* C11: a turn whose gateway call fails after its respondent message was
\* appended is answered as failed; the respondent message stays the last
\* message of the thread, no assessor message is appended and no thread
\* status changes.
C11_FailedTurnKeepsRespondentMessage ==
    [][\A k \in Slots :
          (req[k].kind = "answer" /\ req[k].pc = "evaluate" /\ req'[k].pc = "done") =>
              LET msgs == GetMessages(req[k].in.threadID)
              IN /\ req'[k].code = StatusInternalServerError
                 /\ messages' = messages
                 /\ threads' = threads
                 /\ Len(msgs) > 0
                 /\ msgs[Len(msgs)].role = RoleStudent
                 /\ msgs[Len(msgs)].content = req[k].in.answer]_vars

\* A turn has failed at its gateway call, and a thread ends with a
\* respondent message that has no reply.
C11_Witness ==
    \E k \in Slots :
        /\ req[k].kind = "answer"
        /\ req[k].pc = "done"
        /\ req[k].code = StatusInternalServerError
        /\ req[k].calls = 1
        /\ \E t \in DOMAIN threads :
              /\ Len(GetMessages(t)) > 0
              /\ LastMessage(t).role = RoleStudent

\* C12: submitted_at is unset while a session is in_progress, is set by the
\* step that takes the session from in_progress to submitted, and once set
\* is never written again.
C12_SubmittedAtSetOnce ==
    [][\A s \in DOMAIN sessions :
          /\ (sessions[s].submitted_at = Null /\ sessions'[s].submitted_at # Null) =>
                /\ sessions[s].status = StatusInProgress
                /\ sessions'[s].status = StatusSubmitted
          /\ sessions[s].submitted_at # Null =>
                sessions'[s].submitted_at = sessions[s].submitted_at]_vars

RECURSIVE CountKind(_, _)
CountKind(outcomes, kinds) ==
    IF outcomes = <<>> THEN 0
    ELSE (IF Head(outcomes).kind \in kinds THEN 1 ELSE 0)
         + CountKind(Tail(outcomes), kinds)

RECURSIVE SumScores(_)
SumScores(outcomes) ==
    IF outcomes = <<>> THEN 0
    ELSE Head(outcomes).score + SumScores(Tail(outcomes))

\* A submission whose percentage has been stored.
GradeStored(r) ==
    r.kind = "submit" /\ r.pc \in {"set_graded", "done"}

\* C14: when the percentage of a submission has been stored, it is
\* 100 * (sum of the scores of the session's threads) / (sum of their
\* max_points), failed and unanswered threads counting 0, and it is 0 when
\* the sum of max_points is 0.
C14_GradeIsPercentageOfTotals ==
    \A k \in Slots :
        GradeStored(req[k]) =>
            LET sid == req[k].in.sessionID
                sumMax == SumMaxPoints(GetThreadsForSession(sid))
                sumScores == SumScores(req[k].outcomes)
                grade == grades[sid].llm_grade
            IN /\ \A i \in 1..Len(req[k].outcomes) :
                     req[k].outcomes[i].kind # "graded" => req[k].outcomes[i].score = 0
               /\ IF sumMax = 0
                  THEN grade.num = 0
                  ELSE grade.num * sumMax = 100 * sumScores * grade.den

\* C15: in every state every session has at least one thread, and a start
\* request creates a session, with its threads in the same step, exactly if
\* its filter matches a question; otherwise it is answered as failed and
\* nothing is created.
C15_SessionsHaveThreads ==
    [][/\ \A s \in DOMAIN sessions' :
            \E t \in DOMAIN threads' : threads'[t].session_id = s
       /\ \A k \in Slots :
            (req[k].kind = "idle" /\ req'[k].kind = "start") =>
                LET topic == IF req'[k].in.topic = "" THEN config.Topic
                             ELSE req'[k].in.topic
                IN IF ListQuestionsFiltered(config.Difficulty, topic) = <<>>
                   THEN /\ req'[k].code = StatusBadRequest
                        /\ sessions' = sessions
                        /\ threads' = threads
                   ELSE /\ req'[k].code = StatusSeeOther
                        /\ Len(sessions') = Len(sessions) + 1]_vars

\* A start request is being answered while another request is in the middle
\* of its store calls, and a start request with an empty filter has failed.
C15_Witness ==
    /\ Len(sessions) = 2
    /\ \E k, j \in Slots :
          /\ req[k].kind = "start"
          /\ req[k].code = StatusBadRequest
          /\ req[j].kind \in {"answer", "submit"}
          /\ req[j].pc # "done"

\* C16: messages are only appended, with increasing ids, and the list a turn
\* reads for the assessor holds, in id order, every message of its thread
\* stored at that moment, the turn's own respondent message among them.
C16_TurnSeesThreadInOrder ==
    [][/\ Len(messages') >= Len(messages)
       /\ SubSeq(messages', 1, Len(messages)) = messages
       /\ \A i \in DOMAIN messages' : messages'[i].id = i
       /\ \A k \in Slots :
            (req[k].kind = "answer" /\ req[k].pc = "evaluate"
               /\ req'[k].pc # "evaluate") =>
                LET threadID == req[k].in.threadID
                    sent == GetMessages(threadID)
                IN /\ \A i \in 1..(Len(sent) - 1) : sent[i].id < sent[i + 1].id
                   /\ \A m \in DOMAIN messages :
                         messages[m].thread_id = threadID =>
                            \E i \in DOMAIN sent : sent[i] = messages[m]
                   /\ \E i \in DOMAIN sent :
                         /\ sent[i].id = req[k].own
                         /\ sent[i].role = RoleStudent
                         /\ sent[i].content = req[k].in.answer
                   /\ req'[k].pc = "add_llm_message" => req'[k].seen = Len(sent)]_vars

\* Two turns on one thread have interleaved: one has sent the assessor both
\* respondent messages while the other has not yet read the thread.
C16_Witness ==
    \E k, j \in Slots :
        /\ req[k].kind = "answer"
        /\ req[j].kind = "answer"
        /\ req[k].pc = "add_llm_message"
        /\ req[j].pc = "evaluate"
        /\ req[k].in.threadID = req[j].in.threadID
        /\ req[k].seen = 2
        /\ Len(GetMessages(req[k].in.threadID)) = 2
        /\ CountRole(GetMessages(req[k].in.threadID), RoleStudent) = 2

\* The step in which request k makes the store call of position pc.
Leaves(k, kind, pc) ==
    req[k].kind = kind /\ req[k].pc = pc /\ req'[k].pc # pc

\* C17: the Score of a thread and the Grade of a session are single rows
\* (the tables are keyed by thread and by session); a score upsert leaves in
\* the thread's row exactly the score and the feedback it carries, a grade
\* upsert leaves in the session's row exactly the percentage it carries, no
\* other row is touched, and no step that is not an upsert changes a row.
C17_LastUpsertWins ==
    [][/\ \A k \in Slots :
            Leaves(k, "submit", "upsert_score") =>
                LET t == req[k].threads[req[k].i].id
                IN /\ DOMAIN scores' = DOMAIN scores \cup {t}
                   /\ scores'[t].llm_score = req[k].cur.score
                   /\ scores'[t].llm_feedback = req[k].cur.feedback
                   /\ \A u \in DOMAIN scores \ {t} : scores'[u] = scores[u]
                   /\ grades' = grades
       /\ \A k \in Slots :
            Leaves(k, "submit", "upsert_grade") =>
                LET sid == req[k].in.sessionID
                IN /\ DOMAIN grades' = DOMAIN grades \cup {sid}
                   /\ grades'[sid].llm_grade =
                         OverallGrade(req[k].totalScore, req[k].totalMaxPoints)
                   /\ \A u \in DOMAIN grades \ {sid} : grades'[u] = grades[u]
                   /\ scores' = scores
       /\ (\A k \in Slots : ~Leaves(k, "submit", "upsert_score")) =>
             \A t \in DOMAIN scores :
                /\ t \in DOMAIN scores'
                /\ scores'[t].llm_score = scores[t].llm_score
                /\ scores'[t].llm_feedback = scores[t].llm_feedback
       /\ (\A k \in Slots : ~Leaves(k, "submit", "upsert_grade")) =>
             \A sid \in DOMAIN grades :
                /\ sid \in DOMAIN grades'
                /\ grades'[sid].llm_grade = grades[sid].llm_grade]_vars

\* Two submissions of one session have both upserted the score of the same
\* thread with different values, and the row holds the pair of one of them.
C17_Witness ==
    \E k, j \in Slots :
        /\ req[k].kind = "submit"
        /\ req[j].kind = "submit"
        /\ req[k].pc = "upsert_grade"
        /\ req[j].pc = "upsert_grade"
        /\ req[k].in.sessionID = req[j].in.sessionID
        /\ req[k].cur.thread = req[j].cur.thread
        /\ req[k].cur.score # req[j].cur.score
        /\ req[k].cur.feedback # req[j].cur.feedback
        /\ scores[req[k].cur.thread].llm_score = req[j].cur.score
        /\ scores[req[k].cur.thread].llm_feedback = req[j].cur.feedback

\* A Grade that carries a finalized value, a reviewer and a review time.
Finalized(g) ==
    g.final_grade # Null /\ g.reviewed_by # Null /\ g.reviewed_at # Null

\* C18: a Grade that is finalized stays finalized in every step, and a grade
\* upsert changes nothing of an existing Grade but its automated percentage.
C18_FinalizationOneWay ==
    [][/\ \A s \in DOMAIN grades :
            Finalized(grades[s]) => (s \in DOMAIN grades' /\ Finalized(grades'[s]))
       /\ \A k \in Slots :
            (Leaves(k, "submit", "upsert_grade")
               /\ req[k].in.sessionID \in DOMAIN grades) =>
                LET sid == req[k].in.sessionID
                IN /\ grades'[sid].final_grade = grades[sid].final_grade
                   /\ grades'[sid].reviewed_by = grades[sid].reviewed_by
                   /\ grades'[sid].reviewed_at = grades[sid].reviewed_at]_vars

\* A finalized session was submitted and graded again, after a reviewer had
\* overridden the score of its thread.
C18_Witness ==
    \E k \in Slots :
        /\ req[k].kind = "submit"
        /\ req[k].pc = "set_graded"
        /\ req[k].in.sessionID \in DOMAIN grades
        /\ Finalized(grades[req[k].in.sessionID])
        /\ grades[req[k].in.sessionID].llm_grade.num > 0
        /\ \E t \in DOMAIN scores :
              /\ GetThread(t).session_id = req[k].in.sessionID
              /\ scores[t].teacher_score # Null

\* C19: a finalize request that is let through leaves every Score and every
\* automated percentage as they were, and when it is answered as successful
\* the session is reviewed and its Grade carries the value and the reviewer
\* of the request, with a review time.
C19_FinalizeStoresValue ==
    [][\A k \in Slots :
          /\ (req[k].kind = "idle" /\ req'[k].kind = "finalize"
                /\ req'[k].pc = "set_reviewed") =>
                /\ scores' = scores
                /\ sessions' = sessions
                /\ DOMAIN grades' = DOMAIN grades
                /\ \A s \in DOMAIN grades : grades'[s].llm_grade = grades[s].llm_grade
          /\ Leaves(k, "finalize", "set_reviewed") =>
                LET sid == req[k].in.sessionID
                IN /\ req'[k].code = StatusSeeOther
                   /\ sessions'[sid].status = StatusReviewed
                   /\ scores' = scores
                   /\ grades' = grades
                   /\ sid \in DOMAIN grades
                   /\ grades[sid].final_grade = Some(req[k].in.finalGrade)
                   /\ grades[sid].reviewed_by = Some(req[k].in.user)
                   /\ grades[sid].reviewed_at # Null]_vars

\* C20: in every reachable state a thread whose status is answered holds at
\* least one respondent message.
C20_AnsweredHasRespondentMessage ==
    \A t \in DOMAIN threads :
        threads[t].status = ThreadAnswered =>
            CountRole(GetMessages(t), RoleStudent) >= 1

\* A session holds an answered thread next to a thread that is still open and
\* has no message at all.
C20_Witness ==
    \E t, u \in DOMAIN threads :
        /\ threads[t].session_id = threads[u].session_id
        /\ threads[t].status = ThreadAnswered
        /\ CountRole(GetMessages(t), RoleStudent) >= 1
        /\ threads[u].status = ThreadOpen
        /\ GetMessages(u) = <<>>

\* C21: after a session is created no step adds a thread to it, removes a
\* thread from it or changes the session or the question a thread refers to;
\* threads only appear together with the new session they belong to.
C21_ThreadSetFixed ==
    [][/\ Len(threads') >= Len(threads)
       /\ \A t \in DOMAIN threads :
             /\ threads'[t].id = threads[t].id
             /\ threads'[t].session_id = threads[t].session_id
             /\ threads'[t].question_id = threads[t].question_id
       /\ \A t \in DOMAIN threads' \ DOMAIN threads :
             threads'[t].session_id \notin DOMAIN sessions]_vars

\* A second session exists while a thread of the first session was answered
\* and completed and still refers to its session and question.
C21_Witness ==
    /\ Len(sessions) = 2
    /\ \E t \in DOMAIN threads :
          /\ threads[t].session_id = 1
          /\ threads[t].status = ThreadCompleted
          /\ GetMessages(t) # <<>>
    /\ \E t \in DOMAIN threads : threads[t].session_id = 2

\* C22: no step modifies or removes a question of the bank, and the
\* max_points a submission reads for a thread is the max_points the thread's
\* question had when the session was created, whatever uploads and restarts
\* on edited files happened in between.
C22_DenominatorFixedAtCreation ==
    [][/\ \A q \in DOMAIN questions :
             q \in DOMAIN questions' /\ questions'[q] = questions[q]
       /\ \A k \in Slots :
             Leaves(k, "submit", "grade_thread") =>
                req'[k].cur.maxPoints =
                    created_max_points[req[k].threads[req[k].i].id]]_vars

\* A thread is graded after the startup file, edited to give its question
\* another max_points, was uploaded: the bank holds the edited question next
\* to the one the thread refers to, and the session was created before the
\* upload (it has no thread for the new question).
C22_Witness ==
    \E k \in Slots :
        /\ req[k].kind = "submit"
        /\ req[k].pc = "upsert_score"
        /\ LET t == GetThread(req[k].threads[req[k].i].id)
           IN /\ Len(GetThreadsForSession(t.session_id)) = 1
              /\ \E q \in DOMAIN questions :
                    /\ q # t.question_id
                    /\ questions[q].topic = GetQuestion(t.question_id).topic
                    /\ questions[q].difficulty = GetQuestion(t.question_id).difficulty
                    /\ questions[q].max_points # created_max_points[t.id]
              /\ req[k].cur.maxPoints = created_max_points[t.id]

\* C28: an upload that gets as far as inserting questions carries a digest
\* that is stored for no imported file, whatever the name of the upload: a
\* file whose digest is on record is rejected before any insert.
C28_DuplicateUploadRejected ==
    [][\A k \in Slots :
          (req[k].kind = "idle" /\ req'[k].kind = "upload"
             /\ req'[k].pc = "insert_question") =>
                \A p \in DOMAIN imported_files :
                    imported_files[p] # req'[k].in.hash]_vars

\* Role-delimiter markup: an opening or closing student-answer or
\* system-instructions tag, in any letter case.
IsMarkupFree(text) ==
    \A tag \in {"<student-answer>", "</student-answer>",
                "<system-instructions>", "</system-instructions>"} :
        ~Contains(ToLower(text), tag)

\* C23: for every input text, the output of the sanitizer contains no
\* role-delimiter markup.
C23_SanitizedHasNoMarkup ==
    probe.phase = "sanitized" => IsMarkupFree(probe.out)

\* C24: in a request sent to the assessor, for a per-turn evaluation or a
\* final grading, every text of a respondent message stands as the
\* sanitizer returns it, in the prompt and in the chat messages.
C24_RespondentTextSanitized ==
    probe.phase = "request" =>
        /\ probe.request[1].Content.Answer =
              sanitizeAnswer(IF probe.op = "evaluate"
                             THEN extractStudentAnswer(probe.messages)
                             ELSE extractConversation(probe.messages))
        /\ \A i \in 1..Len(probe.messages) :
              probe.messages[i].role = RoleStudent =>
                 probe.request[i + 1].Content = sanitizeAnswer(probe.messages[i].content)

\* C25: for every conversation and every max_followups, the instructions of
\* a per-turn evaluation forbid a further follow-up exactly when the number
\* of messages with the assessor role is at least max_followups, and permit
\* one otherwise.
C25_FollowupForbiddenIffExhausted ==
    (probe.phase = "request" /\ probe.op = "evaluate") =>
        LET instructions == probe.request[1].Content.Instructions
            exhausted == CountRole(probe.messages, RoleLLM) >= probe.maxFollowups
        IN /\ Contains(instructions, NoFollowupText) <=> exhausted
           /\ Contains(instructions, MayFollowupText) <=> ~exhausted

\* The conversation holds as many assessor messages as max_followups allows,
\* between respondent messages, and the instructions forbid a follow-up.
C25_Witness ==
    /\ probe.phase = "request"
    /\ probe.op = "evaluate"
    /\ probe.maxFollowups = 1
    /\ Len(probe.messages) = 3
    /\ CountRole(probe.messages, RoleLLM) = 1
    /\ probe.messages[2].role = RoleLLM
    /\ Contains(probe.request[1].Content.Instructions, NoFollowupText)

\* C26: for every score and every maxPoints, a raw score below 0 comes out
\* as 0 with the lower-bound warning, a raw score above maxPoints comes out
\* as maxPoints with the upper-bound warning, and a raw score within
\* [0, maxPoints] comes out unchanged with no clamp warning.
C26_ClampClassifiedByDirection ==
    probe.phase = "output" =>
        LET raw == probe.result.Score
        IN /\ raw < 0 =>
                /\ probe.out.Score = 0
                /\ Contains(probe.warning, "clamped to lower bound")
           /\ raw > probe.maxPoints =>
                /\ probe.out.Score = probe.maxPoints
                /\ Contains(probe.warning, "clamped to upper bound")
           /\ (0 <= raw /\ raw <= probe.maxPoints) =>
                /\ probe.out.Score = raw
                /\ probe.warning = ""

\* C27: a student changes no session of another respondent.  Every request
\* of SpecStudents is sent by a student, and a turn is let through only for
\* the student the session in its path belongs to: the thread a turn is about
\* to write to belongs to a session of that same student.
C27_StudentWritesOwnSessionOnly ==
    \A k \in Slots :
        (req[k].kind = "answer" /\ req[k].pc = "add_student_message") =>
            OwnerSession(req[k].in.threadID).student_id =
                GetSession(req[k].in.sessionID).student_id

C30_CompletedThreadClosedToTurns ==
    \A k \in Slots :
        (req[k].kind = "answer" /\ req[k].pc = "add_student_message") =>
            GetThread(req[k].in.threadID).status # ThreadCompleted

(***************************************************************************)
(* SpecStart: start requests alone, under every combination of the exam    *)
(* parameters --num-questions, --difficulty, --topic and --shuffle.        *)
(***************************************************************************)
InitStart ==
    /\ \E n \in {0, 1, 3}, d \in {"", "easy"}, t \in {"", "t1"}, sh \in BOOLEAN :
          InitStore([DefaultConfig EXCEPT !.NumQuestions = n, !.Difficulty = d,
                                          !.Topic = t, !.Shuffle = sh])
    /\ conc = 1
    /\ probe = NoProbe

NextStart ==
    \/ \E k \in Slots, u \in StudentUsers, topic \in {"", "t1", "t2"} :
          handleStartExam(k, u, topic)
    \/ \E k \in Slots : Return(k)

SpecStart == InitStart /\ [][NextStart]_vars

\* The threads of a session, in a given threads table.
ThreadsOf(table, sessionID) ==
    {t \in DOMAIN table : table[t].session_id = sessionID}

\* C31: a start request answered with a redirect has created one session in
\* status in_progress; its threads are all open, refer to pairwise distinct
\* questions that all match the difficulty and topic filter of the request,
\* and number min(N, m) when a cap N > 0 is configured and m otherwise, m
\* being the number of matching questions; with and without shuffling.
C31_StartCreatesSession ==
    [][\A k \in Slots :
          (req[k].kind = "idle" /\ req'[k].kind = "start"
                /\ req'[k].code = StatusSeeOther) =>
             LET topic == IF req'[k].in.topic = "" THEN config.Topic
                          ELSE req'[k].in.topic
                 matching == {q \in DOMAIN questions :
                                /\ (config.Difficulty # "" =>
                                      questions[q].difficulty = config.Difficulty)
                                /\ (topic # "" => questions[q].topic = topic)}
                 m == Cardinality(matching)
                 sid == Len(sessions) + 1
                 new == ThreadsOf(threads', sid)
             IN /\ Len(sessions') = sid
                /\ sessions'[sid].status = StatusInProgress
                /\ SubSeq(threads', 1, Len(threads)) = threads
                /\ new = DOMAIN threads' \ DOMAIN threads
                /\ \A t \in new : /\ threads'[t].status = ThreadOpen
                                  /\ threads'[t].question_id \in matching
                /\ \A t, u \in new :
                      threads'[t].question_id = threads'[u].question_id => t = u
                /\ Cardinality(new) = IF config.NumQuestions > 0
                                      THEN Min(config.NumQuestions, m)
                                      ELSE m]_vars

\* A shuffled and capped session: of the two matching questions, the second
\* one alone was kept.
C31_Witness ==
    /\ config.Shuffle
    /\ config.NumQuestions = 1
    /\ \E k \in Slots : /\ req[k].kind = "start"
                        /\ req[k].code = StatusSeeOther
                        /\ req[k].in.topic = ""
    /\ \E s \in DOMAIN sessions :
          /\ sessions[s].status = StatusInProgress
          /\ Cardinality(ThreadsOf(threads, s)) = 1
          /\ \A t \in ThreadsOf(threads, s) :
                threads[t].question_id = 2 /\ threads[t].status = ThreadOpen

\* C34: when a topic filter is configured for the deployment, every thread
\* of every session refers to a question of the configured topic, whatever
\* topic the start requests carried.
C34_ConfiguredTopicOnly ==
    config.Topic # "" =>
       \A t \in DOMAIN threads :
          GetQuestion(threads[t].question_id).topic = config.Topic

\* C32: the grading upsert of a thread's score row leaves the row's
\* teacher_score and teacher_comment as they were, the reviewer's override
\* leaves its llm_score and llm_feedback as they were, and no step changes
\* both pairs of a row; a row the grading inserts has no override.
C32_ScoreFieldsFramed ==
    [][/\ \A t \in DOMAIN scores :
             LET llmSame == /\ scores'[t].llm_score = scores[t].llm_score
                            /\ scores'[t].llm_feedback = scores[t].llm_feedback
                 teacherSame ==
                            /\ scores'[t].teacher_score = scores[t].teacher_score
                            /\ scores'[t].teacher_comment = scores[t].teacher_comment
             IN /\ t \in DOMAIN scores'
                /\ (\E k \in Slots : Leaves(k, "submit", "upsert_score")) => teacherSame
                /\ (\E k \in Slots : req[k].kind = "idle" /\ req'[k].kind = "score")
                      => llmSame
                /\ llmSame \/ teacherSame
       /\ \A t \in DOMAIN scores' \ DOMAIN scores :
             /\ \E k \in Slots : Leaves(k, "submit", "upsert_score")
             /\ scores'[t].teacher_score = Null
             /\ scores'[t].teacher_comment = ""]_vars

\* A thread graded, overridden by the reviewer and graded again: the second
\* grading has just written its score next to the override.
C32_Witness ==
    \E k \in Slots :
       /\ req[k].kind = "submit"
       /\ req[k].pc = "complete_thread"
       /\ LET t == req[k].threads[req[k].i].id
          IN /\ t \in DOMAIN scores
             /\ scores[t].teacher_score = Some(1)
             /\ scores[t].teacher_comment = "ok"
             /\ scores[t].llm_score = req[k].cur.score

\* C40: the automated percentage stored for a session lies between 0 and
\* 100 inclusive.
C40_PercentageWithinBounds ==
    \A s \in DOMAIN grades :
        /\ 0 <= grades[s].llm_grade.num
        /\ grades[s].llm_grade.num <= 100 * grades[s].llm_grade.den

\* C38: whenever a session's status is reviewed, a grade row exists for the
\* session and carries a finalized percentage, a reviewer and a review time.
C38_ReviewedHasFinalizedGrade ==
    \A s \in DOMAIN sessions :
        sessions[s].status = StatusReviewed =>
            /\ s \in DOMAIN grades
            /\ grades[s].final_grade # Null
            /\ grades[s].reviewed_by # Null
            /\ grades[s].reviewed_at # Null

\* C36: an answer turn appends messages to, and changes the status of, only
\* a thread of the session named in the same request; a request pairing a
\* session with a thread of another session changes nothing.
C36_TurnWritesThreadOfItsSession ==
    [][\A k \in Slots :
          (req[k].kind = "answer" /\ (messages' # messages \/ threads' # threads)) =>
             GetThread(req[k].in.threadID).session_id = req[k].in.sessionID]_vars

\* C35: an answer turn on a thread of the session it names appends its
\* respondent message, appends the assessor's message and changes the
\* thread's status only while that session is in_progress, however its steps
\* interleave with a submission of the same session.
C35_NoTurnWriteAfterSubmit ==
    [][\A k \in Slots :
          (/\ \/ Leaves(k, "answer", "add_student_message") /\ messages' # messages
              \/ Leaves(k, "answer", "add_llm_message") /\ messages' # messages
              \/ Leaves(k, "answer", "update_thread_status") /\ threads' # threads
           /\ GetThread(req[k].in.threadID).session_id = req[k].in.sessionID)
          => GetSession(req[k].in.sessionID).status = StatusInProgress]_vars

\* The sum of the automated scores stored for a sequence of threads.
RECURSIVE SumStoredScores(_)
SumStoredScores(ts) ==
    IF ts = <<>> THEN 0
    ELSE (IF Head(ts).id \in DOMAIN scores THEN scores[Head(ts).id].llm_score ELSE 0)
         + SumStoredScores(Tail(ts))

\* C37: whenever a session is graded or reviewed and no submission of it is
\* being handled, its stored automated grade is 100 * (sum of the automated
\* scores stored for its threads) / (sum of its threads' max_points), or 0
\* when that sum is 0.
C37_GradeMatchesStoredScores ==
    \A s \in DOMAIN sessions :
        (/\ sessions[s].status \in {StatusGraded, StatusReviewed}
         /\ \A k \in Slots : ~(/\ req[k].kind = "submit"
                               /\ req[k].pc # "done"
                               /\ req[k].in.sessionID = s))
        => /\ s \in DOMAIN grades
           /\ LET ts == GetThreadsForSession(s)
                  sumMax == SumMaxPoints(ts)
                  grade == grades[s].llm_grade
              IN IF sumMax = 0
                 THEN grade.num = 0
                 ELSE grade.num * sumMax = 100 * SumStoredScores(ts) * grade.den

(***************************************************************************)
(* SpecFaults: one request at a time, and any store call of handleAnswer   *)
(* and handleSubmit may return an error (a locked or full database).  A    *)
(* failed statement changes nothing in the store.                          *)
(***************************************************************************)
\* handleAnswer when the store call it is about to make fails.  Lines
\* 241-245 and 290-294: a failed AddMessage ends the turn with 500.  Lines
\* 300-302: a failed UpdateThreadStatus is logged and the thread is rendered.
handleAnswerStoreFails(k) ==
    /\ req[k].kind = "answer"
    /\ req[k].pc \in {"add_student_message", "add_llm_message", "update_thread_status"}
    /\ req' = [req EXCEPT ![k] =
                 IF req[k].pc = "update_thread_status"
                 THEN [req[k] EXCEPT !.pc = "done", !.code = StatusOK]
                 ELSE Done("answer", StatusInternalServerError, req[k].calls)]
    /\ UNCHANGED <<config, users, store, created_max_points, clock, conc, probe>>

\* handleSubmit when the store call it is about to make fails.  Lines
\* 339-350: a failed UpdateSessionStatus(grading), or a failed
\* GetThreadsForSession after it, ends the request with 500.  Lines 362-399
\* and 407-415: a failed UpsertScore, UpdateThreadStatus, UpsertGrade or
\* UpdateSessionStatus(graded) is logged and the handler goes on.
handleSubmitStoreFails(k) ==
    /\ req[k].kind = "submit"
    /\ req[k].pc \in {"set_grading", "upsert_score", "complete_thread",
                      "upsert_grade", "set_graded"}
    /\ IF req[k].pc = "set_grading"
       THEN \E written \in BOOLEAN :
              /\ sessions' = IF written
                             THEN UpdateSessionStatus(req[k].in.sessionID,
                                                      StatusGrading, clock)
                             ELSE sessions
              /\ req' = [req EXCEPT ![k] =
                           Done("submit", StatusInternalServerError, 0)]
       ELSE /\ sessions' = sessions
            /\ req' = [req EXCEPT ![k] =
                 IF req[k].pc = "upsert_score"
                 THEN (IF req[k].cur.kind = "graded"
                       THEN [req[k] EXCEPT !.pc = "complete_thread"]
                       ELSE NextThread(req[k]))
                 ELSE IF req[k].pc = "complete_thread" THEN NextThread(req[k])
                 ELSE IF req[k].pc = "upsert_grade"
                 THEN [req[k] EXCEPT !.pc = "set_graded"]
                 ELSE [req[k] EXCEPT !.pc = "done", !.code = StatusSeeOther]]
    /\ UNCHANGED <<config, users, questions, imported_files, created_max_points,
                   blueprints, threads, messages, scores,
                   grades, clock, conc, probe>>

InitFaults ==
    /\ InitStore(ConcConfig)
    /\ conc = 1
    /\ probe = NoProbe

\* A request that is being handled goes on: its next store or gateway call
\* returns, with a result or with an error, and its response is sent.
HandlerStep ==
    \E k \in Slots :
       \/ handleAnswerAddStudent(k)
       \/ handleAnswerEvaluateWith(k, ConcEvalOutcomes)
       \/ handleAnswerAddLLM(k)
       \/ handleAnswerUpdateStatus(k)
       \/ handleAnswerStoreFails(k)
       \/ handleSubmitSetGrading(k)
       \/ handleSubmitGradeThreadWith(k, ConcGradeOutcomes)
       \/ handleSubmitUpsertScore(k)
       \/ handleSubmitCompleteThread(k)
       \/ handleSubmitUpsertGrade(k)
       \/ handleSubmitSetGraded(k)
       \/ handleSubmitStoreFails(k)
       \/ Return(k)

NextFaults ==
    \/ \E k \in Slots, u \in StartUsers : handleStartExam(k, u, "")
    \/ \E k \in Slots, u \in StartUsers, s \in 1..MaxSessions,
          t \in 1..Len(threads), a \in AnswerInputs :
            handleAnswerBegin(k, u, s, t, a)
    \/ \E k \in Slots, s \in 1..MaxSessions : handleSubmitBegin(k, s)
    \/ HandlerStep

SpecFaults == InitFaults /\ [][NextFaults]_vars

\* The scheduling of net/http: the goroutine of a request keeps running.
SpecFaultsLive == SpecFaults /\ WF_vars(HandlerStep)

\* C33: every answer turn reported as successful has appended the
\* assessor's message to the thread and applied the thread status change.
C33_SuccessfulTurnFullyStored ==
    \A k \in Slots :
        (req[k].kind = "answer" /\ req[k].pc = "done" /\ req[k].code = StatusOK) =>
            /\ GetThread(req[k].in.threadID).status = NewThreadStatus(req[k].result)
            /\ \E m \in DOMAIN messages :
                  /\ messages[m].thread_id = req[k].in.threadID
                  /\ messages[m].role = RoleLLM
                  /\ messages[m].content = LLMText(req[k].result)

\* C39: every session that enters status submitted eventually reaches
\* status graded.
C39_SubmittedLeadsToGraded ==
    \A s \in 1..MaxSessions :
        (s \in DOMAIN sessions /\ sessions[s].status = StatusSubmitted)
            ~> (s \in DOMAIN sessions /\ sessions[s].status = StatusGraded)

====
